---- MODULE Spec2Model ----
(***************************************************************************)
(* Model of the eLibrary judiciary scraper.                                *)
(*                                                                         *)
(*   link_scraper.py : fetch_page_with_retries, extract_links              *)
(*   main.py         : call_model_with_retries, fetch_page_with_retries,   *)
(*                     generate_and_append_to_excel                        *)
(*                                                                         *)
(* Three specifications share the module:                                  *)
(*   SpecRetry  the three retry loops, one step per loop iteration         *)
(*   SpecLinks  extract_links, one step per <a href> element               *)
(*   Spec       generate_and_append_to_excel: one step per link, then the  *)
(*              write of the spreadsheet                                   *)
(***************************************************************************)
EXTENDS Integers, Sequences, FiniteSets

VARIABLES
    \* ---- the retry loops (locals of the running call) ----
    fn,              \* which function is running
    url,             \* the url argument of a fetcher
    max_retries,     \* the max_retries argument
    attempt,         \* next value of the loop variable `attempt`
    delay,           \* local `delay`
    last_exception,  \* local `last_exception` (link_scraper.py only)
    calls,           \* requests / generate_content calls made by this call
    sleeps,          \* arguments of time.sleep made by this call, in order
    outcome,         \* what the most recent attempt produced
    pc,              \* "idle", "loop", "returned", "raised"
    result,          \* the value returned or the exception raised
    \* ---- extract_links ----
    base_url,        \* the url argument
    hrefs,           \* href attributes of soup.find_all("a", href=True)
    filter_regex,    \* the filter_regex argument
    tag,             \* index of the next a_tag
    seen,            \* local `seen`
    ordered_links,   \* local `ordered_links`
    lpc,             \* "idle", "loop", "done" (returned)
    \* ---- generate_and_append_to_excel ----
    LINKS_TO_PROCESS,
    link_idx,        \* index of the next link of the for loop
    all_new_data,    \* the Record Batch
    files,           \* debug files on disk: name -> content
    writes,          \* every debug file write, in order
    log,             \* per processed link: the link and whether it succeeded
    last,            \* how the most recently processed link went
    run_pc,          \* "start", "loop", "done", "aborted", "stopped", "crashed"
    existing,        \* the spreadsheet found on disk by the sink
    written          \* the table passed to to_excel

retryVars == <<fn, url, max_retries, attempt, delay, last_exception, calls,
               sleeps, outcome, pc, result>>
linkVars == <<base_url, hrefs, filter_regex, tag, seen, ordered_links, lpc>>
runVars == <<LINKS_TO_PROCESS, link_idx, all_new_data, files, writes, log,
             last, run_pc, existing, written>>
vars == <<retryVars, linkVars, runVars>>

None == [cls |-> "None", id |-> 0]

\* Values of the parts a specification does not use.
NoLink == [i |-> 0, cls |-> "", err |-> "", ladder |-> "none"]

NoTable == [exists |-> FALSE, readable |-> FALSE, columns |-> <<>>, rows |-> <<>>]

LinksIdle ==
    /\ base_url = [scheme |-> "", netloc |-> "", segs |-> <<>>, slashes |-> 0]
    /\ hrefs = <<>>
    /\ filter_regex = "None"
    /\ tag = 0
    /\ seen = {}
    /\ ordered_links = <<>>
    /\ lpc = "idle"

RunIdle ==
    /\ LINKS_TO_PROCESS = <<>>
    /\ link_idx = 0
    /\ all_new_data = <<>>
    /\ files = {}
    /\ writes = <<>>
    /\ log = <<>>
    /\ last = NoLink
    /\ run_pc = "idle"
    /\ existing = NoTable
    /\ written = NoTable

(***************************************************************************)
(* Bounds of the model.                                                    *)
(***************************************************************************)
MaxRetries == 4
MaxHrefs == 3
MaxLinks == 2
MaxRows == 2

(***************************************************************************)
(* Part 1.  The retry loops.                                               *)
(***************************************************************************)
ScraperInitialDelay == 1
MainInitialDelay == 2

Fetchers == {"link_scraper.fetch_page_with_retries", "main.fetch_page_with_retries"}

\* Exception classes requests.get / raise_for_status can raise.  MissingSchema
\* (a malformed url) derives from RequestException; ValueError (an invalid
\* timeout) does not.
RequestExceptionClasses == {"ConnectionError", "Timeout", "HTTPError", "MissingSchema"}

IsRequestException(cls) == cls \in RequestExceptionClasses

\* What one requests.get + raise_for_status can produce for a url.
FetchOutcomes(u) ==
    IF u = "malformed" THEN {"MissingSchema"}
    ELSE {"ok", "ConnectionError", "Timeout", "HTTPError", "ValueError"}

StatusCodes == {429, 500, 502, 503, 504, 404}

\* Exceptions generate_content can raise, by what the handler inspects:
\*   has_code : hasattr(e, 'code')
\*   code_ok  : int(e.code) succeeds;  code : its value
\*   arg      : e.args[0] is "noargs" (args empty), "nodict" (no dict with an
\*              'error' key), "nocode" (error dict without 'code') or "code"
\*              (error dict carrying arg_code)
ModelExceptions ==
    {[cls |-> "APIError", has_code |-> TRUE, code_ok |-> TRUE, code |-> c,
      arg |-> "noargs", arg_code |-> 0] : c \in StatusCodes}
    \cup {[cls |-> "APIError", has_code |-> TRUE, code_ok |-> FALSE, code |-> 0,
           arg |-> "code", arg_code |-> 503]}
    \cup {[cls |-> "Exception", has_code |-> FALSE, code_ok |-> FALSE, code |-> 0,
           arg |-> a, arg_code |-> 0] : a \in {"noargs", "nodict", "nocode"}}
    \cup {[cls |-> "Exception", has_code |-> FALSE, code_ok |-> FALSE, code |-> 0,
           arg |-> "code", arg_code |-> c] : c \in {503, 404}}

TRANSIENT_STATUS == {429, 500, 502, 503, 504}

\* status = None
NoStatus == -1

\* main.py 49-57: the status extracted from an exception.
ExtractStatus(e) ==
    IF e.has_code
    THEN (IF e.code_ok THEN e.code ELSE NoStatus)
    ELSE IF e.arg = "code" THEN e.arg_code
    ELSE IF e.arg = "nocode" THEN 0
    ELSE NoStatus

BackoffWrong(d) == d + 2

\* delay *= 2
Backoff(d) == d * 2

ScraperRetriesWrong(a, m) == a + 1 < m

\* link_scraper.py 51: if attempt < max_retries
ScraperRetries(a, m) == a < m

\* main.py 74: if attempt == max_retries: raise
MainFetchRaises(a, m) == a = m

ModelRaisesWrong(is_transient, a, m) == (~is_transient) /\ a = m

\* main.py 59: if not is_transient or attempt == max_retries: raise
ModelRaises(is_transient, a, m) == (~is_transient) \/ a = m

RetryIdle ==
    /\ fn = "none"
    /\ url = "none"
    /\ max_retries = 0
    /\ attempt = 0
    /\ delay = 0
    /\ last_exception = None
    /\ calls = 0
    /\ sleeps = <<>>
    /\ outcome = None
    /\ pc = "idle"
    /\ result = None

\* A caller enters one of the three functions: the locals are initialised.
Call(f, u, m, d0) ==
    /\ pc \in {"idle", "returned", "raised"}
    /\ fn' = f
    /\ url' = u
    /\ max_retries' = m
    /\ attempt' = 1
    /\ delay' = d0
    /\ last_exception' = None
    /\ calls' = 0
    /\ sleeps' = <<>>
    /\ outcome' = None
    /\ pc' = "loop"
    /\ result' = None
    /\ UNCHANGED <<linkVars, runVars>>

CallScraperFetch ==
    \E u \in {"wellformed", "malformed"}, m \in 0..MaxRetries :
        Call("link_scraper.fetch_page_with_retries", u, m, ScraperInitialDelay)

CallMainFetch ==
    \E u \in {"wellformed", "malformed"}, m \in 0..MaxRetries :
        Call("main.fetch_page_with_retries", u, m, MainInitialDelay)

CallModel ==
    \E m \in 0..MaxRetries, d0 \in {2, 3} :
        Call("main.call_model_with_retries", "none", m, d0)

\* The attempt succeeded: return the response.
Return(o) ==
    /\ pc' = "returned"
    /\ result' = o
    /\ UNCHANGED <<attempt, delay, sleeps, last_exception>>

\* The exception leaves the function.
Raise(e) ==
    /\ pc' = "raised"
    /\ result' = e
    /\ UNCHANGED <<attempt, delay, sleeps>>

\* print, time.sleep(delay), delay *= 2, next iteration.
SleepAndRetry ==
    /\ sleeps' = Append(sleeps, delay)
    /\ delay' = Backoff(delay)
    /\ attempt' = attempt + 1
    /\ UNCHANGED <<pc, result>>

\* One iteration of the loop of link_scraper.fetch_page_with_retries.
ScraperFetchAttempt ==
    /\ pc = "loop"
    /\ fn = "link_scraper.fetch_page_with_retries"
    /\ attempt <= max_retries
    /\ calls' = calls + 1
    /\ \E c \in FetchOutcomes(url) :
         LET o == [cls |-> c, id |-> calls + 1] IN
         /\ outcome' = o
         /\ IF c = "ok" THEN Return(o)
            ELSE IF ~IsRequestException(c)
            THEN Raise(o) /\ UNCHANGED last_exception
            ELSE /\ last_exception' = o
                 /\ IF ScraperRetries(attempt, max_retries)
                    THEN SleepAndRetry
                    ELSE Raise(last_exception')
    /\ UNCHANGED <<fn, url, max_retries>>
    /\ UNCHANGED <<linkVars, runVars>>

\* One iteration of the loop of main.fetch_page_with_retries.
MainFetchAttempt ==
    /\ pc = "loop"
    /\ fn = "main.fetch_page_with_retries"
    /\ attempt <= max_retries
    /\ calls' = calls + 1
    /\ \E c \in FetchOutcomes(url) :
         LET o == [cls |-> c, id |-> calls + 1] IN
         /\ outcome' = o
         /\ IF c = "ok" THEN Return(o)
            ELSE IF ~IsRequestException(c) THEN Raise(o)
            ELSE IF MainFetchRaises(attempt, max_retries) THEN Raise(o)
            ELSE SleepAndRetry
    /\ UNCHANGED <<fn, url, max_retries, last_exception>>
    /\ UNCHANGED <<linkVars, runVars>>

\* One iteration of the loop of call_model_with_retries.
CallModelAttempt ==
    /\ pc = "loop"
    /\ fn = "main.call_model_with_retries"
    /\ attempt <= max_retries
    /\ calls' = calls + 1
    /\ \/ LET o == [cls |-> "ok", id |-> calls + 1] IN
          outcome' = o /\ Return(o)
       \/ \E x \in ModelExceptions :
            LET e == [cls |-> x.cls, id |-> calls + 1, has_code |-> x.has_code,
                      code_ok |-> x.code_ok, code |-> x.code, arg |-> x.arg,
                      arg_code |-> x.arg_code]
                status == ExtractStatus(e)
                is_transient == status \in TRANSIENT_STATUS
            IN /\ outcome' = e
               /\ IF ModelRaises(is_transient, attempt, max_retries)
                  THEN Raise(e)
                  ELSE SleepAndRetry
    /\ UNCHANGED <<fn, url, max_retries, last_exception>>
    /\ UNCHANGED <<linkVars, runVars>>

\* range(1, max_retries + 1) is exhausted: the function ends without a
\* return statement and yields None (only when max_retries < 1).
LoopExhausted ==
    /\ pc = "loop"
    /\ attempt > max_retries
    /\ pc' = "returned"
    /\ result' = None
    /\ UNCHANGED <<fn, url, max_retries, attempt, delay, last_exception, calls,
                   sleeps, outcome>>
    /\ UNCHANGED <<linkVars, runVars>>

RetryNext ==
    \/ CallScraperFetch
    \/ CallMainFetch
    \/ CallModel
    \/ ScraperFetchAttempt
    \/ MainFetchAttempt
    \/ CallModelAttempt
    \/ LoopExhausted


(***************************************************************************)
(* Part 2.  link_scraper.extract_links.                                    *)
(*                                                                         *)
(* A url or href is kept by its components, so that two texts are equal    *)
(* exactly when their records are:                                         *)
(*   ws     the text has surrounding whitespace (hrefs only)               *)
(*   scheme "" when absent                                                 *)
(*   netloc "" when absent                                                 *)
(*   abs    the path starts with "/"                                       *)
(*   segs   the path's segments                                            *)
(*   frag   "-" when there is no '#', else the text after it               *)
(***************************************************************************)
Host == "elibrary.judiciary.gov.ph"

H(ws, scheme, netloc, abs, segs, frag) ==
    [ws |-> ws, scheme |-> scheme, netloc |-> netloc, abs |-> abs,
     segs |-> segs, frag |-> frag]

\* The href attributes the pages are built from.
HrefSet ==
    { H(TRUE, "", "", FALSE, <<>>, "-"),                      \* "  "
      H(FALSE, "", "", FALSE, <<>>, "top"),                   \* "#top"
      H(FALSE, "", "", FALSE, <<"a.pdf">>, "-"),              \* "a.pdf"
      H(TRUE, "", "", FALSE, <<"a.pdf">>, "-"),               \* " a.pdf "
      H(FALSE, "", "", FALSE, <<".", "a.pdf">>, "-"),         \* "./a.pdf"
      H(FALSE, "http", Host, TRUE, <<"docs", "a.pdf">>, "-"), \* "http://<Host>/docs/a.pdf"
      H(FALSE, "", "", FALSE, <<"A.PDF">>, "-"),              \* "A.PDF"
      H(FALSE, "", "", FALSE, <<"a.pdf">>, "s"),              \* "a.pdf#s"
      H(FALSE, "", "", FALSE, <<"b.htm">>, "-"),              \* "b.htm"
      H(FALSE, "mailto", "", FALSE, <<"clerk">>, "-"),        \* "mailto:clerk"
      H(FALSE, "", "", TRUE, <<"thebookshelf", "showdocs", "1", "2">>, "-") }

\* The page urls: "http://<Host>/docs" with 0 or 1 trailing "/".
BaseSet ==
    {[scheme |-> "http", netloc |-> Host, segs |-> <<"docs">>, slashes |-> n] :
        n \in {0, 1}}

FilterSet == {"None", "pdf", "cases"}

\* a_tag['href'].strip()
Strip(h) == [h EXCEPT !.ws = FALSE]

\* not href
IsEmptyText(h) ==
    ~h.ws /\ h.scheme = "" /\ h.netloc = "" /\ ~h.abs /\ h.segs = <<>> /\ h.frag = "-"

\* href.startswith('#')
StartsWithHash(h) ==
    ~h.ws /\ h.scheme = "" /\ h.netloc = "" /\ ~h.abs /\ h.segs = <<>> /\ h.frag # "-"

\* url.rstrip('/')
Rstrip(b) == [b EXCEPT !.slashes = 0]

\* base_url + '/'
AddSlash(b) == [b EXCEPT !.slashes = b.slashes + 1]

IsNotDot(x) == x # "."

\* urllib.parse.urljoin(base, href) for a base that ends in "/": a href with a
\* scheme is taken as it is, one with a host takes the base's scheme, an
\* absolute path takes the base's scheme and host, a relative path is
\* appended to the base's directory; "." segments are removed.
urljoin(b, h) ==
    IF h.scheme # ""
    THEN [scheme |-> h.scheme, netloc |-> h.netloc, segs |-> h.segs, frag |-> h.frag]
    ELSE IF h.netloc # ""
    THEN [scheme |-> b.scheme, netloc |-> h.netloc,
          segs |-> SelectSeq(h.segs, IsNotDot), frag |-> h.frag]
    ELSE IF h.abs
    THEN [scheme |-> b.scheme, netloc |-> b.netloc,
          segs |-> SelectSeq(h.segs, IsNotDot), frag |-> h.frag]
    ELSE [scheme |-> b.scheme, netloc |-> b.netloc,
          segs |-> SelectSeq(b.segs \o h.segs, IsNotDot), frag |-> h.frag]

\* if not parsed.scheme or not parsed.netloc: continue
LacksSchemeOrHost(u) == u.scheme = "" \/ u.netloc = ""

\* Lower case of a path segment (re.IGNORECASE).
Lower(seg) == IF seg = "A.PDF" THEN "a.pdf" ELSE seg

IsDigits(seg) == seg \in {"1", "2"}

\* re.search(filter_regex, abs_url, re.IGNORECASE) for the two patterns used:
\* "pdf" is \.pdf$ and "cases" is the default pattern of main().
Search(f, u) ==
    IF f = "pdf"
    THEN /\ u.frag = "-"
         /\ u.segs # <<>>
         /\ Lower(u.segs[Len(u.segs)]) \in {"a.pdf"}
    ELSE /\ u.scheme \in {"http", "https"}
         /\ u.netloc = Host
         /\ Len(u.segs) = 4
         /\ Lower(u.segs[1]) = "thebookshelf"
         /\ Lower(u.segs[2]) = "showdocs"
         /\ IsDigits(u.segs[3])
         /\ IsDigits(u.segs[4])
         /\ u.frag = "-"

\* if filter_regex and not re.search(...): continue
FilteredOut(f, u) == f # "None" /\ ~Search(f, u)

IsNewAlways(u, s) == TRUE

\* if abs_url not in seen
IsNew(u, s) == u \notin s

\* Sequences over S of length at most n.
SeqUpTo(S, n) == UNION {[1..k -> S] : k \in 0..n}

LinksInit ==
    /\ base_url \in BaseSet
    /\ hrefs \in SeqUpTo(HrefSet, MaxHrefs)
    /\ filter_regex \in FilterSet
    /\ tag = 1
    /\ seen = {}
    /\ ordered_links = <<>>
    /\ lpc = "loop"
    /\ RetryIdle
    /\ RunIdle

\* One iteration of `for a_tag in soup.find_all("a", href=True)`.
VisitTag ==
    /\ lpc = "loop"
    /\ tag <= Len(hrefs)
    /\ LET href == Strip(hrefs[tag])
           abs_url == urljoin(AddSlash(Rstrip(base_url)), href)
       IN IF IsEmptyText(href) \/ StartsWithHash(href) \/ IsEmptyText(href)
          THEN UNCHANGED <<seen, ordered_links>>
          ELSE IF LacksSchemeOrHost(abs_url)
          THEN UNCHANGED <<seen, ordered_links>>
          ELSE IF FilteredOut(filter_regex, abs_url)
          THEN UNCHANGED <<seen, ordered_links>>
          ELSE IF IsNew(abs_url, seen)
          THEN /\ seen' = seen \cup {abs_url}
               /\ ordered_links' = Append(ordered_links, abs_url)
          ELSE UNCHANGED <<seen, ordered_links>>
    /\ tag' = tag + 1
    /\ UNCHANGED <<base_url, hrefs, filter_regex, lpc>>
    /\ UNCHANGED <<retryVars, runVars>>

\* return ordered_links
ReturnLinks ==
    /\ lpc = "loop"
    /\ tag > Len(hrefs)
    /\ lpc' = "done"
    /\ UNCHANGED <<base_url, hrefs, filter_regex, tag, seen, ordered_links>>
    /\ UNCHANGED <<retryVars, runVars>>

LinksNext ==
    \/ VisitTag
    \/ ReturnLinks

SpecLinks == LinksInit /\ [][LinksNext]_vars

(***************************************************************************)
(* Claims about extract_links (checked under SpecLinks).                   *)
(***************************************************************************)
\* The absolute url a href stands for on the page b.
Resolved(b, h) == urljoin(AddSlash(Rstrip(b)), Strip(h))

\* A href survives when it is neither empty nor fragment-only, its url has a
\* scheme and a host, and the url passes the filter (if there is one).
Survives(b, f, h) ==
    /\ ~IsEmptyText(Strip(h))
    /\ ~StartsWithHash(Strip(h))
    /\ Resolved(b, h).scheme # ""
    /\ Resolved(b, h).netloc # ""
    /\ (f = "None" \/ Search(f, Resolved(b, h)))

RECURSIVE Survivors(_, _, _)
\* The urls of the surviving hrefs of hs, in order, repeats included.
Survivors(b, f, hs) ==
    IF hs = <<>> THEN <<>>
    ELSE LET rest == Survivors(b, f, SubSeq(hs, 1, Len(hs) - 1))
             h == hs[Len(hs)]
         IN IF Survives(b, f, h) THEN Append(rest, Resolved(b, h)) ELSE rest

\* The first position of u in s.
FirstIndex(u, s) == CHOOSE i \in 1..Len(s) : s[i] = u /\ \A j \in 1..(i - 1) : s[j] # u

\* The hrefs extract_links has visited so far.
Visited == SubSeq(hrefs, 1, tag - 1)

\* C10: the links collected by extract_links hold no url twice, are exactly
\* the urls of the surviving hrefs, and stand in the order in which those
\* urls first occur; this holds after every tag and so of the value returned.
C10_LinksDistinctInFirstOccurrenceOrder ==
    (lpc \in {"loop", "done"}) =>
        LET surv == Survivors(base_url, filter_regex, Visited) IN
        /\ \A i, j \in 1..Len(ordered_links) :
             i # j => ordered_links[i] # ordered_links[j]
        /\ {ordered_links[i] : i \in 1..Len(ordered_links)} = {surv[i] : i \in 1..Len(surv)}
        /\ \A i, j \in 1..Len(ordered_links) :
             i < j => FirstIndex(ordered_links[i], surv) < FirstIndex(ordered_links[j], surv)

\* Three surviving hrefs, the first and the third different texts of one url.
C10_Witness ==
    /\ lpc = "done"
    /\ Len(hrefs) = 3
    /\ hrefs[1] # hrefs[3]
    /\ Len(Survivors(base_url, filter_regex, hrefs)) = 3
    /\ Resolved(base_url, hrefs[1]) = Resolved(base_url, hrefs[3])
    /\ Resolved(base_url, hrefs[1]) # Resolved(base_url, hrefs[2])
    /\ Len(ordered_links) = 2

(***************************************************************************)
(* The retry loops on their own.                                           *)
(***************************************************************************)
RetryInit == RetryIdle /\ LinksIdle /\ RunIdle

SpecRetry == RetryInit /\ [][RetryNext]_vars

(***************************************************************************)
(* Claims about the retry loops (checked under SpecRetry).                 *)
(***************************************************************************)
Pow2(n) == 2 ^ n

\* The initial delay of each fetcher, as the sources set it.
FetcherInitialDelay(f) ==
    IF f = "link_scraper.fetch_page_with_retries" THEN 1 ELSE 2

\* C1: in both fetchers, when attempt k+1 is the first to succeed (k <
\* max_retries), the call returns that response after exactly k+1 requests
\* and k sleeps; the first sleep is the initial delay and each later one is
\* double the one before; every call starts again from the initial delay.
C1_FetchReturnsAfterKFailures ==
    (fn \in Fetchers /\ calls >= 1 /\ outcome.cls = "ok") =>
        /\ pc = "returned"
        /\ result = outcome
        /\ outcome.id = calls
        /\ calls <= max_retries
        /\ Len(sleeps) = calls - 1
        /\ \A i \in 1..Len(sleeps) :
             sleeps[i] = FetcherInitialDelay(fn) * Pow2(i - 1)

\* Two transient failures, then success on the third of three attempts.
C1_Witness ==
    /\ fn = "link_scraper.fetch_page_with_retries"
    /\ max_retries = 3
    /\ pc = "returned"
    /\ calls = 3
    /\ outcome.cls = "ok"
    /\ sleeps = <<1, 2>>

\* C2: in call_model_with_retries a failed attempt is followed by a sleep
\* and another attempt only if its extracted status is one of 429, 500, 502,
\* 503, 504 and attempts remain; any other failure leaves the function on
\* that attempt, with no sleep.
C2_ModelRetriesOnlyTransient ==
    [][ ( /\ fn = "main.call_model_with_retries"
          /\ pc = "loop"
          /\ calls' = calls + 1
          /\ outcome'.cls # "ok" ) =>
        IF ExtractStatus(outcome') \in {429, 500, 502, 503, 504}
           /\ attempt < max_retries
        THEN /\ pc' = "loop"
             /\ sleeps' = Append(sleeps, delay)
             /\ attempt' = attempt + 1
        ELSE /\ pc' = "raised"
             /\ result' = outcome'
             /\ sleeps' = sleeps
             /\ attempt' = attempt ]_vars

\* A 404 on the second of four attempts, after one transient failure.
C2_Witness ==
    /\ fn = "main.call_model_with_retries"
    /\ max_retries = 4
    /\ pc = "raised"
    /\ calls = 2
    /\ Len(sleeps) = 1
    /\ outcome.cls # "ok"
    /\ ExtractStatus(outcome) = 404

\* Errors that no retry can cure.
NonTransientClasses == {"MissingSchema", "ValueError"}

\* C3: in the HTTP fetchers a non-transient error (a malformed url) is
\* raised by the attempt on which it occurs, with no sleep after it and no
\* further request; for a malformed url that is the first attempt.
C3_NonTransientFailsImmediately ==
    (fn \in Fetchers /\ calls >= 1 /\ outcome.cls \in NonTransientClasses) =>
        /\ pc = "raised"
        /\ result = outcome
        /\ Len(sleeps) = calls - 1
        /\ (url = "malformed" => calls = 1 /\ sleeps = <<>>)

\* What each function retries.
Retryable(f, o) ==
    IF f \in Fetchers
    THEN o.cls \in {"ConnectionError", "Timeout", "HTTPError", "MissingSchema"}
    ELSE ExtractStatus(o) \in {429, 500, 502, 503, 504}

\* C4: when a call ends by raising a retryable error (so every attempt
\* failed with one), exactly max_retries attempts and max_retries - 1 sleeps
\* were made and the error raised is the one of the last attempt itself.
C4_ExhaustionRaisesLastError ==
    (pc = "raised" /\ Retryable(fn, outcome)) =>
        /\ max_retries >= 1
        /\ calls = max_retries
        /\ Len(sleeps) = max_retries - 1
        /\ result = outcome
        /\ outcome.id = calls

\* Four of four inference attempts failed with a transient status.
C4_Witness ==
    /\ fn = "main.call_model_with_retries"
    /\ max_retries = 4
    /\ pc = "raised"
    /\ calls = 4
    /\ sleeps = <<2, 4, 8>>
    /\ result = outcome
    /\ ExtractStatus(outcome) = 503

(***************************************************************************)
(* Part 3.  main.generate_and_append_to_excel.                             *)
(*                                                                         *)
(* The two retrying calls are taken here by what they hand back (a value   *)
(* or an exception); their loops are Part 1.  A model reply is kept by     *)
(* what the code asks of it: whether it has text, and what json.loads,     *)
(* json_repair.loads and the regular expression make of that text.         *)
(***************************************************************************)
expected_columns ==
    <<"Case Number", "Case Title", "Facts", "Decision", "Ruling", "Verdict">>

\* Elements a parsed array can hold: an object with the six keys, an object
\* with other keys, and a value that is no object.
Six == [mapping |-> TRUE, keys |-> expected_columns]

Partial == [mapping |-> TRUE, keys |-> <<"Case Number", "Case Title">>]

Scalar == [mapping |-> FALSE, keys |-> <<>>]

\* Parsed JSON values: arrays of 0, 1 and 2 elements, an object, a string.
JsonValues ==
    {[type |-> "list", items |-> s] :
        s \in {<<>>, <<Six>>, <<Partial>>, <<Scalar>>, <<Six, Six>>}}
    \cup {[type |-> "dict", items |-> <<>>], [type |-> "str", items |-> <<>>]}

\* The parser raised.
Fail == [type |-> "error", items |-> <<>>]

\* A step the code does not reach for this text.
Unused == [type |-> "unused", items |-> <<>>]

\* Response texts, by the result of each step the code may apply:
\*   direct    json.loads(raw_json_text)
\*   repair    json_repair.loads(raw_json_text)
\*   match     re.search(r"(\[\s*\{.*?\}\s*\])", raw_json_text, re.S)
\*   subdirect json.loads(m.group(1))
\*   subrepair json_repair.loads(m.group(1))
Texts ==
    {[direct |-> v, repair |-> Unused, match |-> FALSE, subdirect |-> Unused,
      subrepair |-> Unused] : v \in JsonValues}
    \cup {[direct |-> Fail, repair |-> v, match |-> FALSE, subdirect |-> Unused,
           subrepair |-> Unused] : v \in JsonValues}
    \cup {[direct |-> Fail, repair |-> Fail, match |-> FALSE, subdirect |-> Unused,
           subrepair |-> Unused]}
    \cup {[direct |-> Fail, repair |-> Fail, match |-> TRUE, subdirect |-> v,
           subrepair |-> Unused] : v \in JsonValues}
    \cup {[direct |-> Fail, repair |-> Fail, match |-> TRUE, subdirect |-> Fail,
           subrepair |-> v] : v \in JsonValues \cup {Fail}}

NoText ==
    [direct |-> Unused, repair |-> Unused, match |-> FALSE, subdirect |-> Unused,
     subrepair |-> Unused]

\* What call_model_with_retries hands back: it raises, or returns a response
\* that is falsy or has no text attribute ("noresponse"), whose text is None
\* or "" ("notext"), whose text is only whitespace ("blank"), or with text.
Replies ==
    {[kind |-> k, text |-> NoText] : k \in {"raise", "noresponse", "notext", "blank"}}
    \cup {[kind |-> "text", text |-> t] : t \in Texts}

NoReply == [kind |-> "unused", text |-> NoText]

\* What the outside world does during one link: the fetch, the model call
\* and, when the code makes it, the stricter second model call.
Scripts ==
    {[fetch |-> "raise", first |-> NoReply, second |-> NoReply]}
    \cup {[fetch |-> "ok", first |-> r, second |-> NoReply] :
             r \in {x \in Replies : x.kind \notin {"noresponse", "notext"}}}
    \cup {[fetch |-> "ok", first |-> r1, second |-> r2] :
             r1 \in {x \in Replies : x.kind \in {"noresponse", "notext"}},
             r2 \in Replies}

\* main.py 218-238: the value the recovery ladder yields and the step that
\* yielded it; "nomatch" and "exhausted" are the two ways it yields none.
ParseLadder(t) ==
    IF t.direct # Fail THEN [ladder |-> "direct", value |-> t.direct]
    ELSE IF t.repair # Fail THEN [ladder |-> "repair", value |-> t.repair]
    ELSE IF ~t.match THEN [ladder |-> "nomatch", value |-> Fail]
    ELSE IF t.subdirect # Fail THEN [ladder |-> "subdirect", value |-> t.subdirect]
    ELSE IF t.subrepair # Fail THEN [ladder |-> "subrepair", value |-> t.subrepair]
    ELSE [ladder |-> "exhausted", value |-> Fail]

\* main.py 241: isinstance(new_data, list) and len(new_data) == 1
ValidShape(v) == v.type = "list" /\ Len(v.items) = 1

\* The outcome of the try block for one link.
Outcome(cls, err, ladder, wrote, data) ==
    [cls |-> cls, err |-> err, ladder |-> ladder, wrote |-> wrote, data |-> data]

\* main.py 153-246: the body of the try block for the i-th link, with the
\* batch as it stands and the world behaving as s.
ProcessOne(i, batch, s) ==
    LET idx == Len(batch) + 1
        empty_file == [name |-> [kind |-> "debug_empty_response", idx |-> idx],
                       content |-> [by |-> i, what |-> "page_text"]]
        bad_json_file == [name |-> [kind |-> "debug_bad_json", idx |-> idx],
                          content |-> [by |-> i, what |-> "raw_json_text"]]
        guard == s.first.kind \in {"noresponse", "notext"}
        w == IF guard THEN <<empty_file>> ELSE <<>>
        response == IF guard THEN s.second ELSE s.first
        p == ParseLadder(response.text)
    IN IF s.fetch = "raise"
       THEN Outcome("RequestException", "fetch failed", "none", <<>>, <<>>)
       ELSE IF s.first.kind = "raise"
       THEN Outcome("APIError", "inference failed", "none", <<>>, <<>>)
       ELSE IF guard /\ s.second.kind = "raise"
       THEN Outcome("ValueError", "Empty model response after retry", "none", w, <<>>)
       ELSE IF response.kind = "noresponse"
       THEN Outcome("AttributeError", "no attribute 'text'", "none", w, <<>>)
       ELSE IF response.kind \in {"notext", "blank"}
       THEN Outcome("ValueError", "Empty model response", "none",
                    Append(w, empty_file), <<>>)
       ELSE IF p.ladder = "nomatch"
       THEN Outcome("ValueError", "Could not parse JSON response even with repairs",
                    "nomatch", Append(w, bad_json_file), <<>>)
       ELSE IF p.ladder = "exhausted"
       THEN Outcome("Exception", "json_repair.loads failed", "exhausted", w, <<>>)
       ELSE IF ~ValidShape(p.value)
       THEN Outcome("ValueError",
                    "Gemini response must be a JSON array with exactly one object.",
                    p.ladder, w, <<>>)
       ELSE Outcome("", "", p.ladder, w, p.value.items)

CaughtOnlyValueError(cls) == cls = "ValueError"

\* main.py 248: except Exception
Caught(cls) ==
    cls \in {"RequestException", "APIError", "ValueError", "AttributeError", "Exception"}

\* open(name, "w").write(content): a file of that name is replaced.
WriteFile(fs, f) == {g \in fs : g.name # f.name} \cup {f}

RECURSIVE WriteAll(_, _)
WriteAll(fs, ws) ==
    IF ws = <<>> THEN fs ELSE WriteAll(WriteFile(fs, ws[1]), Tail(ws))

\* The elements of a parsed array, marked with the link they came from.
From(items, i) == [k \in 1..Len(items) |-> [mapping |-> items[k].mapping,
                                            keys |-> items[k].keys, from |-> i]]

LinkSet == {"u1", "u2"}

Init ==
    /\ LINKS_TO_PROCESS \in SeqUpTo(LinkSet, MaxLinks)
    /\ link_idx = 0
    /\ all_new_data = <<>>
    /\ files = {}
    /\ writes = <<>>
    /\ log = <<>>
    /\ last = NoLink
    /\ run_pc = "start"
    /\ existing = NoTable
    /\ written = NoTable
    /\ RetryIdle
    /\ LinksIdle

\* main.py 87-148: the early returns (no links, output file locked, no API
\* key, client not created), else the loop starts with an empty batch.
Start ==
    /\ run_pc = "start"
    /\ \E env \in {"ok", "locked", "nokey", "noclient"} :
         IF LINKS_TO_PROCESS = <<>> \/ env # "ok"
         THEN run_pc' = "aborted" /\ UNCHANGED <<link_idx, all_new_data>>
         ELSE run_pc' = "loop" /\ link_idx' = 1 /\ all_new_data' = <<>>
    /\ UNCHANGED <<LINKS_TO_PROCESS, files, writes, log, last, existing, written>>
    /\ UNCHANGED <<retryVars, linkVars>>

\* main.py 150-251: one iteration of `for link in LINKS_TO_PROCESS`.
ProcessLink ==
    /\ run_pc = "loop"
    /\ link_idx <= Len(LINKS_TO_PROCESS)
    /\ \E s \in Scripts :
         LET r == ProcessOne(link_idx, all_new_data, s) IN
         /\ files' = WriteAll(files, r.wrote)
         /\ writes' = writes \o r.wrote
         /\ last' = [i |-> link_idx, cls |-> r.cls, err |-> r.err, ladder |-> r.ladder]
         /\ IF r.cls = ""
            THEN /\ all_new_data' = all_new_data \o From(r.data, link_idx)
                 /\ log' = Append(log, [link |-> LINKS_TO_PROCESS[link_idx], ok |-> TRUE])
                 /\ link_idx' = link_idx + 1
                 /\ UNCHANGED run_pc
            ELSE IF Caught(r.cls)
            THEN /\ log' = Append(log, [link |-> LINKS_TO_PROCESS[link_idx], ok |-> FALSE])
                 /\ link_idx' = link_idx + 1
                 /\ UNCHANGED <<all_new_data, run_pc>>
            ELSE /\ run_pc' = "stopped"
                 /\ UNCHANGED <<all_new_data, log, link_idx>>
    /\ UNCHANGED <<LINKS_TO_PROCESS, existing, written>>
    /\ UNCHANGED <<retryVars, linkVars>>

(***************************************************************************)
(* The Tabular Sink.  A table is its header (columns) and its rows; a row  *)
(* is kept by where it came from (a row of the file found on disk, or the  *)
(* record of link n) and the columns it has values in.                     *)
(***************************************************************************)
Range(q) == {q[k] : k \in 1..Len(q)}

\* The columns of cols, then those of keys not among them, in order.
AddColumns(cols, keys) ==
    LET IsMissing(k) == k \notin Range(cols) IN cols \o SelectSeq(keys, IsMissing)

RECURSIVE KeysOf(_)
\* The keys of a list of dicts in the order of their first appearance.
KeysOf(batch) ==
    IF batch = <<>> THEN <<>>
    ELSE AddColumns(KeysOf(SubSeq(batch, 1, Len(batch) - 1)), batch[Len(batch)].keys)

\* pd.DataFrame(data) raises when data[0] is a dict and a later element is
\* not one.
DataFrameRaises(batch) ==
    batch[1].mapping /\ \E k \in 1..Len(batch) : ~batch[k].mapping

\* main.py 259: pd.DataFrame(all_new_data).  A list of dicts gives one row
\* per dict under the union of their keys; a list that starts with a value
\* that is no dict gives the one column 0 holding the elements.
DataFrame(batch) ==
    IF batch[1].mapping
    THEN [exists |-> TRUE, readable |-> TRUE, columns |-> KeysOf(batch),
          rows |-> [k \in 1..Len(batch) |->
                      [old |-> FALSE, n |-> batch[k].from, cells |-> Range(batch[k].keys)]]]
    ELSE [exists |-> TRUE, readable |-> TRUE, columns |-> <<"0">>,
          rows |-> [k \in 1..Len(batch) |->
                      [old |-> FALSE, n |-> batch[k].from, cells |-> {"0"}]]]

\* Header rows a file on disk may have: none (a blank sheet), the expected
\* one, other names, and the expected names in another order.
Headers ==
    { <<>>,
      expected_columns,
      <<"A", "B">>,
      <<"Case Title", "Case Number", "Facts", "Decision", "Ruling", "Verdict">> }

OldRows(c, n) == [k \in 1..n |-> [old |-> TRUE, n |-> k, cells |-> Range(c)]]

\* What os.path.exists / pd.read_excel find: no file, a file that cannot be
\* read, or a table.
ExistingSet ==
    {NoTable, [exists |-> TRUE, readable |-> FALSE, columns |-> <<>>, rows |-> <<>>]}
    \cup {[exists |-> TRUE, readable |-> TRUE, columns |-> c, rows |-> OldRows(c, n)] :
             c \in Headers \ {<<>>}, n \in 0..MaxRows}
    \cup {[exists |-> TRUE, readable |-> TRUE, columns |-> <<>>, rows |-> <<>>]}

OverwritesIfEmptyOrDifferent(df_existing) ==
    Len(df_existing.rows) = 0 \/ df_existing.columns # expected_columns

\* main.py 268: len(df_existing) > 0 and list(df_existing.columns) != expected_columns
Overwrites(df_existing) ==
    Len(df_existing.rows) > 0 /\ df_existing.columns # expected_columns

\* main.py 273: pd.concat([df_existing, df_new], ignore_index=True)
Concat(a, b) ==
    [exists |-> TRUE, readable |-> TRUE, columns |-> AddColumns(a.columns, b.columns),
     rows |-> a.rows \o b.rows]

\* main.py 262-280: df_combined
Combined(ex, df_new) ==
    IF ~ex.exists THEN df_new
    ELSE IF ~ex.readable THEN df_new
    ELSE IF Overwrites(ex) THEN df_new
    ELSE Concat(ex, df_new)

\* main.py 255-286: after the loop, the batch is written, once.
FlushBatch ==
    /\ run_pc = "loop"
    /\ link_idx > Len(LINKS_TO_PROCESS)
    /\ IF all_new_data = <<>>
       THEN run_pc' = "done" /\ UNCHANGED <<existing, written>>
       ELSE IF DataFrameRaises(all_new_data)
       THEN run_pc' = "crashed" /\ UNCHANGED <<existing, written>>
       ELSE \E ex \in ExistingSet :
              /\ existing' = ex
              /\ written' = Combined(ex, DataFrame(all_new_data))
              /\ run_pc' = "done"
    /\ UNCHANGED <<LINKS_TO_PROCESS, link_idx, all_new_data, files, writes, log, last>>
    /\ UNCHANGED <<retryVars, linkVars>>

Next ==
    \/ Start
    \/ ProcessLink
    \/ FlushBatch

Spec == Init /\ [][Next]_vars

(***************************************************************************)
(* Claims about generate_and_append_to_excel (checked under Spec).         *)
(***************************************************************************)
\* The positions of the batch that hold a record of the i-th link.
RecordsOf(i) == {k \in 1..Len(all_new_data) : all_new_data[k].from = i}

\* C5: whatever fails for a link, the run goes on: the links are processed
\* one by one in input order, none twice and none skipped, the loop never
\* ends before the last link, a link that failed has no record in the batch
\* and a link that succeeded has exactly one.
C5_EveryLinkProcessedOnceInOrder ==
    /\ run_pc # "stopped"
    /\ (run_pc \in {"loop", "done", "crashed"}) =>
          /\ Len(log) = link_idx - 1
          /\ Len(log) <= Len(LINKS_TO_PROCESS)
          /\ \A i \in 1..Len(log) :
               /\ log[i].link = LINKS_TO_PROCESS[i]
               /\ Cardinality(RecordsOf(i)) = (IF log[i].ok THEN 1 ELSE 0)
          /\ \A k \in 1..Len(all_new_data) : all_new_data[k].from \in 1..Len(log)
          /\ (last.i > 0 /\ last.cls # "") => (~log[last.i].ok /\ RecordsOf(last.i) = {})
    /\ (run_pc \in {"done", "crashed"}) => Len(log) = Len(LINKS_TO_PROCESS)

\* The first of two links failed and the second still gave its record.
C5_Witness ==
    /\ run_pc = "done"
    /\ LINKS_TO_PROCESS = <<"u1", "u2">>
    /\ Len(log) = 2
    /\ ~log[1].ok
    /\ log[2].ok
    /\ Len(all_new_data) = 1
    /\ all_new_data[1].from = 2

\* C6: every element of the Record Batch is a mapping with the six fields.
C6_BatchHoldsOnlyConformingRecords ==
    \A k \in 1..Len(all_new_data) :
        /\ all_new_data[k].mapping
        /\ Range(all_new_data[k].keys) = Range(expected_columns)

\* C7: whenever the recovery ladder yields no value for a link (no substring
\* matches, or the matched substring can be neither parsed nor repaired), the
\* raw response is written to a debug file and the link fails with the
\* could-not-parse error.
C7_UnparsableResponseIsPersisted ==
    (last.ladder \in {"nomatch", "exhausted"}) =>
        /\ last.err = "Could not parse JSON response even with repairs"
        /\ \E f \in files :
             /\ f.name.kind = "debug_bad_json"
             /\ f.content = [by |-> last.i, what |-> "raw_json_text"]

\* The rows pd.DataFrame makes of a batch of records.
NewRows ==
    [k \in 1..Len(all_new_data) |->
        [old |-> FALSE, n |-> all_new_data[k].from, cells |-> Range(all_new_data[k].keys)]]

\* Every element of the batch is a record (a mapping).
AllRecords == \A k \in 1..Len(all_new_data) : all_new_data[k].mapping

\* The table written is exactly the new records.
WrittenIsNewRecords ==
    /\ written.rows = NewRows
    /\ written.columns = KeysOf(all_new_data)

\* The table written is the existing rows, then the new rows.
WrittenIsAppended ==
    /\ written.rows = existing.rows \o NewRows
    /\ Len(written.rows) = Len(existing.rows) + Len(all_new_data)

\* C8 as stated: with a prior file, an empty table or a header other than
\* the expected one means the new records alone are written; otherwise the
\* new rows are appended to the existing ones.
C8_SinkMergeAsStated ==
    (run_pc = "done" /\ written.exists /\ AllRecords) =>
        IF ~existing.exists THEN WrittenIsNewRecords
        ELSE IF Len(existing.rows) = 0 \/ existing.columns # expected_columns
        THEN WrittenIsNewRecords
        ELSE WrittenIsAppended

\* C8, amended: the new records alone are written when there is no prior
\* file, when it cannot be read, and when it has at least one row and a
\* header other than the expected one; in every other case (no rows, or the
\* expected header) the new rows are appended to the existing rows under
\* the existing columns followed by the new records' other columns.
C8_SinkMerge ==
    (run_pc = "done" /\ written.exists /\ AllRecords) =>
        IF \/ ~existing.exists
           \/ ~existing.readable
           \/ (Len(existing.rows) > 0 /\ existing.columns # expected_columns)
        THEN WrittenIsNewRecords
        ELSE /\ WrittenIsAppended
             /\ written.columns =
                  existing.columns \o
                  SelectSeq(KeysOf(all_new_data),
                            LAMBDA c : \A k \in 1..Len(existing.columns) :
                                          existing.columns[k] # c)

\* A prior file with the header A, B and no rows: its columns stay.
C8_Witness ==
    /\ run_pc = "done"
    /\ written.exists
    /\ AllRecords
    /\ existing.readable
    /\ existing.columns = <<"A", "B">>
    /\ existing.rows = <<>>
    /\ Len(written.rows) = Len(all_new_data)
    /\ written.columns # KeysOf(all_new_data)

\* C9: two different links that both write a debug file of the same kind
\* write files of different names, so neither overwrites the other's.
C9_DebugArtifactsHaveDistinctNames ==
    \A a, b \in 1..Len(writes) :
        ( /\ writes[a].content.by # writes[b].content.by
          /\ LINKS_TO_PROCESS[writes[a].content.by] # LINKS_TO_PROCESS[writes[b].content.by]
          /\ writes[a].name.kind = writes[b].name.kind ) =>
            writes[a].name.idx # writes[b].name.idx

====
